---- MODULE Spec2Model ----
(***************************************************************************)
(* A model of src/main.rs: an axum service holding a Vec<User> behind a    *)
(* tokio Mutex, a session table (token -> username) behind a second        *)
(* Mutex, and users.json as the backing store, rewritten wholesale by      *)
(* save_users after every push/remove.                                     *)
(*                                                                         *)
(* Every request is handled by a task; the model has NumProcs tasks, each  *)
(* serving one request at a time.  A step of a task is the stretch of its  *)
(* handler from one suspension point to the next: a lock().await and the   *)
(* code after it, up to the next await or the return, are one step, which  *)
(* can be taken only while the Mutex is free.  The guard on the sessions   *)
(* Mutex never lives across an await, so that Mutex is free between steps; *)
(* the guard on the users Mutex lives across fs::write in create_user and  *)
(* delete_user, and usersLock names its holder.                            *)
(***************************************************************************)
EXTENDS Integers, Sequences, FiniteSets, TLC

\* ------------------------------------------------------------- bounds
NumProcs == 2      \* request-handling tasks that may run concurrently
NumTokens == 2     \* size of the universe of UUID strings the model draws from
MaxReqs == 4       \* requests that arrive in one run of the service
MaxIndex == 2      \* largest user_id a DELETE names

Procs == 1..NumProcs
Tokens == 1..NumTokens
NoProc == 0

\* Claimed usernames a client may log in with (LoginRequest.username).
Names == {"alice", "mallory"}

\* Bodies of POST /users (CreateUser); both may be sent any number of times.
Payloads ==
    { [username |-> "bob",   real_name |-> "Bob B",   email |-> "bob@x.com"],
      [username |-> "carol", real_name |-> "Carol C", email |-> "carol@x.com"] }

\* The x-session-token header of a request: missing, present but not visible
\* ASCII (HeaderValue::to_str fails), or a string of the token universe.
NoHeader == 0
BadHeader == -1
Headers == {NoHeader, BadHeader} \cup Tokens

\* Path(user_id): usize.
Indices == 0..MaxIndex

\* ------------------------------------------------------------- User
\* MkUser recording the new record's own username as its creator.
MkUserSelfOwned(payload, by) ==
    [username   |-> payload.username,
     real_name  |-> payload.real_name,
     email      |-> payload.email,
     created_by |-> payload.username]

\* struct User, built by create_user from the payload and the session.
MkUser(payload, by) ==
    [username   |-> payload.username,
     real_name  |-> payload.real_name,
     email      |-> payload.email,
     created_by |-> by]

\* ------------------------------------------------- users.json as text
\* The file's content is a sequence of JSON lexemes (whitespace, which
\* to_string_pretty adds and from_str skips, is left out): a punctuation
\* mark <<"p", c>> or a string literal <<"s", s>>.
Str(s) == <<"s", s>>
IsStr(x) == x[1] = "s"
LBrack == <<"p", "[">>
RBrack == <<"p", "]">>
LBrace == <<"p", "{">>
RBrace == <<"p", "}">>
Comma == <<"p", ",">>
Colon == <<"p", ":">>

\* SerUser with real_name and email written under each other's key.
SerUserSwapped(u) ==
    << LBrace, Str("username"),   Colon, Str(u.username),  Comma,
               Str("real_name"),  Colon, Str(u.email),     Comma,
               Str("email"),      Colon, Str(u.real_name), Comma,
               Str("created_by"), Colon, Str(u.created_by), RBrace >>

\* serde's derived Serialize for User: the fields in declaration order.
SerUser(u) ==
    << LBrace, Str("username"),   Colon, Str(u.username),   Comma,
            Str("real_name"),  Colon, Str(u.real_name),  Comma,
            Str("email"),      Colon, Str(u.email),      Comma,
            Str("created_by"), Colon, Str(u.created_by), RBrace >>

RECURSIVE SerElems(_)
SerElems(us) ==
    IF us = <<>> THEN <<>>
    ELSE IF Len(us) = 1 THEN SerUser(us[1])
    ELSE SerUser(us[1]) \o <<Comma>> \o SerElems(Tail(us))

\* serde_json::to_string_pretty(users): a JSON array of the records in order.
to_string_pretty(us) == <<LBrack>> \o SerElems(us) \o <<RBrack>>

FieldNames == {"username", "real_name", "email", "created_by"}
ParseErr == [ok |-> FALSE, val |-> <<>>, pos |-> 0]

\* The members of one JSON object, read from position i (just after the
\* opening brace or after a comma): key, colon, string, then a comma or the
\* closing brace.  got maps the fields seen so far to their values.  serde's derived Deserialize rejects a duplicate
\* field and ignores a key that names no field.
RECURSIVE ParseMembers(_, _, _)
ParseMembers(t, i, got) ==
    IF i + 3 > Len(t) THEN ParseErr
    ELSE IF ~(IsStr(t[i]) /\ t[i + 1] = Colon /\ IsStr(t[i + 2])) THEN ParseErr
    ELSE LET k == t[i][2]
             v == t[i + 2][2]
         IN  IF k \in DOMAIN got THEN ParseErr
             ELSE LET got2 == IF k \in FieldNames
                              THEN [f \in DOMAIN got \cup {k} |->
                                       IF f = k THEN v ELSE got[f]]
                              ELSE got
                  IN  IF t[i + 3] = Comma THEN ParseMembers(t, i + 4, got2)
                      ELSE IF t[i + 3] = RBrace
                      THEN [ok |-> TRUE, val |-> got2, pos |-> i + 4]
                      ELSE ParseErr

\* ParseUser accepting an object only if username is its first key, as in
\* the text to_string_pretty writes.
ParseUserInOrder(t, i) ==
    IF i + 1 > Len(t) \/ t[i] # LBrace THEN ParseErr
    ELSE LET m == ParseMembers(t, i + 1, <<>>)
         IN  IF m.ok /\ DOMAIN m.val = FieldNames /\ t[i + 1] = Str("username")
             THEN [ok |-> TRUE, pos |-> m.pos,
                   val |-> [username   |-> m.val["username"],
                            real_name  |-> m.val["real_name"],
                            email      |-> m.val["email"],
                            created_by |-> m.val["created_by"]]]
             ELSE ParseErr

\* One User object starting at position i; a missing field is an error.
ParseUser(t, i) ==
    IF i + 1 > Len(t) \/ t[i] # LBrace THEN ParseErr
    ELSE LET m == ParseMembers(t, i + 1, <<>>)
         IN  IF m.ok /\ DOMAIN m.val = FieldNames
             THEN [ok |-> TRUE, pos |-> m.pos,
                   val |-> [username   |-> m.val["username"],
                            real_name  |-> m.val["real_name"],
                            email      |-> m.val["email"],
                            created_by |-> m.val["created_by"]]]
             ELSE ParseErr

\* The elements of the array from position i, acc being those read so far.
RECURSIVE ParseElems(_, _, _)
ParseElems(t, i, acc) ==
    LET u == ParseUser(t, i)
    IN  IF ~u.ok \/ u.pos > Len(t) THEN ParseErr
        ELSE IF t[u.pos] = Comma THEN ParseElems(t, u.pos + 1, Append(acc, u.val))
        ELSE IF t[u.pos] = RBrack
        THEN [ok |-> TRUE, val |-> Append(acc, u.val), pos |-> u.pos + 1]
        ELSE ParseErr

\* serde_json::from_str::<Vec<User>>: the whole text must be one array of
\* User objects, with nothing after it.
from_str(t) ==
    IF Len(t) < 2 \/ t[1] # LBrack THEN ParseErr
    ELSE IF t[2] = RBrack
    THEN (IF Len(t) = 2 THEN [ok |-> TRUE, val |-> <<>>, pos |-> 3] ELSE ParseErr)
    ELSE LET r == ParseElems(t, 2, <<>>)
         IN  IF r.ok /\ r.pos = Len(t) + 1 THEN r ELSE ParseErr

\* The backing store: no file, or a file with some content.
NoFile == [exists |-> FALSE, text |-> <<>>]
FileOf(t) == [exists |-> TRUE, text |-> t]

\* load_users: read_to_string failing gives Vec::new(); a parse error gives
\* unwrap_or_default(), the empty Vec.
load_users(f) ==
    IF ~f.exists THEN <<>>
    ELSE LET r == from_str(f.text) IN IF r.ok THEN r.val ELSE <<>>

\* What a failed fs::write can leave behind: File::create failed and the file
\* is as it was, or the file was created or truncated and nothing of the
\* text reached it.
WriteFailOutcomes(f) == {f, FileOf(<<>>)}

\* ------------------------------------------------------------- state
VARIABLES
    users,      \* AppState.users: the Vec<User> inside its Mutex
    sessions,   \* AppState.sessions: the HashMap token -> username
    file,       \* users.json
    usersLock,  \* the task holding the users Mutex across an await, or NoProc
    pc,         \* pc[p]: where task p is in its handler ("idle": no request)
    req,        \* req[p]: the request task p is serving
    tok,        \* tok[p]: login's local `token`
    ident,      \* ident[p]: SessionToken.username, once extracted
    nreq,       \* requests that have arrived
    last,       \* the response sent most recently
    minted,     \* every token Uuid::new_v4 returned so far -> the username of
                \* the login that drew it
    calls,      \* the create calls that have returned since startup or since
                \* the latest users.remove, in order of return
    fromEmpty,  \* the collection was empty at startup or after the latest
                \* users.remove
    stale       \* the latest fs::write failed

vars == <<users, sessions, file, usersLock, pc, req, tok, ident, nreq,
          last, minted, calls, fromEmpty, stale>>

NoPayload == [username |-> "", real_name |-> "", email |-> ""]
NoReq == [op |-> "none", username |-> "", hdr |-> NoHeader,
          payload |-> NoPayload, user_id |-> 0]
LoginReq(u) == [NoReq EXCEPT !.op = "login", !.username = u]
ListReq == [NoReq EXCEPT !.op = "list"]
CreateReq(h, pl) == [NoReq EXCEPT !.op = "create", !.hdr = h, !.payload = pl]
DeleteReq(h, i) == [NoReq EXCEPT !.op = "delete", !.hdr = h, !.user_id = i]

\* impl IntoResponse for ApiError: the status line of each variant.
into_response(err) ==
    CASE err = "UserNotFound" -> 404
      [] err = "Forbidden"    -> 403
      [] err = "ServerError"  -> 500

\* The status of a handler's Ok value.
OkStatus(op) == IF op = "delete" THEN 204 ELSE 200

\* The places a request fails at, and the ApiError each of them returns:
\* the extractor's last line, delete_user's two Err branches, save_users.
Causes == {"no_session", "not_owner", "out_of_range", "write_failed"}
ErrAt(cause) ==
    CASE cause = "no_session"   -> "Forbidden"
      [] cause = "not_owner"    -> "Forbidden"
      [] cause = "out_of_range" -> "UserNotFound"
      [] cause = "write_failed" -> "ServerError"

\* A response: the operation it answers, the ApiError variant (or "none"),
\* the status line, the place that produced it ("ok": the handler's Ok),
\* and list's array.  Two observations are kept with it: held, another task
\* held the users Mutex when the response was sent; behind, the write this
\* response reports began with users.json left behind by a failed write.
NoResp == [op |-> "none", err |-> "none", status |-> 0, cause |-> "none",
           body |-> <<>>, held |-> FALSE, behind |-> FALSE]
Ok(p) ==
    [NoResp EXCEPT !.op = req[p].op, !.status = OkStatus(req[p].op),
                   !.cause = "ok"]
Err(op, cause) ==
    [NoResp EXCEPT !.op = op, !.err = ErrAt(cause),
                   !.status = into_response(ErrAt(cause)), !.cause = cause]

\* The files main() may find: none, one that is not a JSON array, and one
\* written by hand with the fields in another order and a field User does
\* not have.
HandWritten ==
    << LBrack, LBrace, Str("created_by"), Colon, Str("mallory"), Comma,
                       Str("id"),         Colon, Str("7"),       Comma,
                       Str("email"),      Colon, Str("carol@x.com"), Comma,
                       Str("username"),   Colon, Str("carol"),   Comma,
                       Str("real_name"),  Colon, Str("Carol C"), RBrace, RBrack >>
InitFiles == {NoFile, FileOf(<<LBrace, RBrace>>), FileOf(HandWritten)}

\* main(): the collection is what load_users returns, the session table is
\* empty, the lock is free and no request has arrived.
Init ==
    /\ file \in InitFiles
    /\ users = load_users(file)
    /\ sessions = <<>>
    /\ minted = <<>>
    /\ usersLock = NoProc
    /\ pc = [p \in Procs |-> "idle"]
    /\ req = [p \in Procs |-> NoReq]
    /\ tok = [p \in Procs |-> 0]
    /\ ident = [p \in Procs |-> ""]
    /\ nreq = 0
    /\ last = NoResp
    /\ calls = <<>>
    /\ fromEmpty = (users = <<>>)
    /\ stale = FALSE

\* ------------------------------------------------------------- helpers
\* HashMapInsert keeping one token per username: the earlier tokens bound to
\* v are dropped.
HashMapInsertOnePerName(m, k, v) ==
    [x \in {y \in DOMAIN m : m[y] # v} \cup {k} |-> IF x = k THEN v ELSE m[x]]

\* HashMapInsert into a table that keeps the latest session only.
HashMapInsertLatestOnly(m, k, v) == [x \in {k} |-> v]

\* HashMap::insert: binds k to v, replacing any earlier binding of k.
HashMapInsert(m, k, v) ==
    [x \in DOMAIN m \cup {k} |-> IF x = k THEN v ELSE m[x]]

\* Uuid::new_v4(): a string no earlier call returned (122 random bits; the
\* model takes a collision to be impossible).  The strings are alike, so the
\* model numbers them in the order they are drawn.
new_v4(drawn) ==
    {t \in Tokens \ drawn : \A x \in Tokens \ drawn : t <= x}

\* push at the front instead of the back.
push_front(v, x) == <<x>> \o v

\* Vec::swap_remove instead of Vec::remove: the last element fills the hole.
swap_remove(v, idx) ==
    IF idx + 1 = Len(v) THEN SubSeq(v, 1, idx)
    ELSE [j \in 1..(Len(v) - 1) |-> IF j = idx + 1 THEN v[Len(v)] ELSE v[j]]

\* Vec::pop instead of Vec::remove: the last element goes, whatever idx is.
remove_last(v, idx) == SubSeq(v, 1, Len(v) - 1)

\* Vec::push and Vec::remove (index from 0; the tail moves down by one).
push(v, x) == Append(v, x)
remove(v, idx) == SubSeq(v, 1, idx) \o SubSeq(v, idx + 2, Len(v))

\* A request arrives at task p: tasks without a request are alike, so the
\* lowest-numbered one takes it.
Arrives(p) ==
    /\ pc[p] = "idle"
    /\ \A q \in Procs : q < p => pc[q] # "idle"
    /\ nreq < MaxReqs
    /\ nreq' = nreq + 1

\* The handler of task p returns r; the task and its locals are gone.
Respond(p, r) ==
    /\ last' = [r EXCEPT !.held = usersLock \notin {NoProc, p}]
    /\ pc' = [pc EXCEPT ![p] = "idle"]
    /\ req' = [req EXCEPT ![p] = NoReq]
    /\ tok' = [tok EXCEPT ![p] = 0]
    /\ ident' = [ident EXCEPT ![p] = ""]

Goto(p, l) == pc' = [pc EXCEPT ![p] = l]

\* ------------------------------------------------------------- login
\* POST /login arrives; login runs up to its await: the token is drawn
\* before the lock is asked for.
Login(p) ==
    /\ Arrives(p)
    /\ \E u \in Names, t \in new_v4(DOMAIN minted) :
          /\ req' = [req EXCEPT ![p] = LoginReq(u)]
          /\ tok' = [tok EXCEPT ![p] = t]
          /\ minted' = [x \in DOMAIN minted \cup {t} |->
                            IF x = t THEN u ELSE minted[x]]
    /\ Goto(p, "login_lock")
    /\ UNCHANGED <<users, sessions, file, usersLock, ident, last, calls,
                   fromEmpty, stale>>

\* LoginInsert going on only once the users Mutex is free.
LoginInsertAfterUsers(p) ==
    /\ pc[p] = "login_lock"
    /\ usersLock = NoProc
    /\ sessions' = HashMapInsert(sessions, tok[p], req[p].username)
    /\ Respond(p, Ok(p))
    /\ UNCHANGED <<users, file, usersLock, nreq, minted, calls, fromEmpty,
                   stale>>

\* state.sessions.lock().await; sessions.insert(token, username);
\* Ok(Json(LoginResponse { token })), dropping the guard.
LoginInsert(p) ==
    /\ pc[p] = "login_lock"
    /\ sessions' = HashMapInsert(sessions, tok[p], req[p].username)
    /\ Respond(p, Ok(p))
    /\ UNCHANGED <<users, file, usersLock, nreq, minted, calls, fromEmpty,
                   stale>>

\* ------------------------------------------- SessionToken extractor
\* from_request_parts with header h: without a readable x-session-token
\* header, or with one the table does not hold, the request is rejected;
\* otherwise the handler runs as the bound username.  The guard on the
\* sessions Mutex is dropped on return.
Rejected(h) == h \in {NoHeader, BadHeader} \/ h \notin DOMAIN sessions

\* Accept with the username left to be looked up after users.lock().
AcceptUnresolved(p, r) ==
    /\ req' = [req EXCEPT ![p] = r]
    /\ Goto(p, IF r.op = "create" THEN "create_lock" ELSE "delete_lock")
    /\ UNCHANGED <<tok, last, ident>>

\* The extractor lets request r of task p through to its handler, which
\* runs up to users.lock().await.
Accept(p, r) ==
    /\ req' = [req EXCEPT ![p] = r]
    /\ ident' = [ident EXCEPT ![p] = sessions[r.hdr]]
    /\ Goto(p, IF r.op = "create" THEN "create_lock" ELSE "delete_lock")
    /\ UNCHANGED <<tok, last>>

\* POST /users arrives; the SessionToken is extracted, then the Json body.
CreateArrive(p) ==
    /\ Arrives(p)
    /\ \E h \in Headers :
          IF Rejected(h)
          THEN Respond(p, Err("create", "no_session"))
          ELSE \E pl \in Payloads : Accept(p, CreateReq(h, pl))
    /\ UNCHANGED <<users, sessions, file, usersLock, minted, calls, fromEmpty,
                   stale>>

\* DELETE /users/:user_id arrives; the SessionToken is extracted, then the
\* Path.
DeleteArrive(p) ==
    /\ Arrives(p)
    /\ \E h \in Headers :
          IF Rejected(h)
          THEN Respond(p, Err("delete", "no_session"))
          ELSE \E i \in Indices : Accept(p, DeleteReq(h, i))
    /\ UNCHANGED <<users, sessions, file, usersLock, minted, calls, fromEmpty,
                   stale>>

\* ------------------------------------------------------------- list
\* GET /users arrives.
ListArrive(p) ==
    /\ Arrives(p)
    /\ req' = [req EXCEPT ![p] = ListReq]
    /\ Goto(p, "list_lock")
    /\ UNCHANGED <<users, sessions, file, usersLock, tok, ident, last,
                   minted, calls, fromEmpty, stale>>

\* ListClone reading the collection without taking the Mutex.
ListCloneUnguarded(p) ==
    /\ pc[p] = "list_lock"
    /\ Respond(p, [Ok(p) EXCEPT !.body = users])
    /\ UNCHANGED <<users, sessions, file, usersLock, nreq, minted, calls,
                   fromEmpty, stale>>

\* state.users.lock().await; Json(users.clone()), dropping the guard.
ListClone(p) ==
    /\ pc[p] = "list_lock"
    /\ usersLock = NoProc
    /\ Respond(p, [Ok(p) EXCEPT !.body = users])
    /\ UNCHANGED <<users, sessions, file, usersLock, nreq, minted, calls,
                   fromEmpty, stale>>

\* ------------------------------------------------------------- save_users
\* Saved appending to a log instead: the text holds the newest record only.
SavedNewestOnly(us) ==
    FileOf(to_string_pretty(IF us = <<>> THEN <<>> ELSE <<us[Len(us)]>>))

\* save_users(&users) succeeding: users.json holds the whole collection.
\* (to_string_pretty cannot fail on a Vec<User>.)
Saved(us) == FileOf(to_string_pretty(us))

\* SaveAndReturn with the guard kept when the write fails.
SaveAndReturnKeepsGuard(p) ==
    \/ /\ file' = Saved(users)
       /\ Respond(p, [Ok(p) EXCEPT !.behind = stale])
       /\ stale' = FALSE
       /\ usersLock' = NoProc
    \/ /\ file' \in WriteFailOutcomes(file)
       /\ Respond(p, Err(req[p].op, "write_failed"))
       /\ stale' = TRUE
       /\ usersLock' = usersLock

\* save_users as the last step of a handler of task p that holds the users
\* lock: the write succeeds and the handler returns Ok, or it fails and `?`
\* returns ServerError.  The MutexGuard is dropped on either return.
SaveAndReturn(p) ==
    /\ usersLock' = NoProc
    /\ \/ /\ file' = Saved(users)
          /\ Respond(p, [Ok(p) EXCEPT !.behind = stale])
          /\ stale' = FALSE
       \/ /\ file' \in WriteFailOutcomes(file)
          /\ Respond(p, Err(req[p].op, "write_failed"))
          /\ stale' = TRUE

\* ------------------------------------------------------------- create
\* CreatePush with the guard dropped right after the push, before save_users.
CreatePushUnguarded(p) ==
    /\ pc[p] = "create_lock"
    /\ usersLock = NoProc
    /\ users' = Append(users, MkUser(req[p].payload, ident[p]))
    /\ pc' = [pc EXCEPT ![p] = "create_save"]
    /\ UNCHANGED <<sessions, file, usersLock, req, tok, ident, nreq,
                   last, minted, calls, fromEmpty, stale>>

\* state.users.lock().await; users.push(User { .. created_by: token.username })
CreatePush(p) ==
    /\ pc[p] = "create_lock"
    /\ usersLock = NoProc
    /\ usersLock' = p
    /\ users' = push(users, MkUser(req[p].payload, ident[p]))
    /\ Goto(p, "create_save")
    /\ UNCHANGED <<sessions, file, req, tok, ident, nreq, last, minted,
                   calls, fromEmpty, stale>>

\* The username the login that drew token t was given.
MintedFor(t) == IF t \in DOMAIN minted THEN minted[t] ELSE ""

\* Some other task is serving a create.
CreateInFlight(p) == \E q \in Procs \ {p} : req[q].op = "create"

\* save_users(&users).await?; Ok(Json(CreateUserResponse { .. }))
CreateSave(p) ==
    /\ pc[p] = "create_save"
    /\ SaveAndReturn(p)
    /\ calls' = Append(calls, [payload |-> req[p].payload,
                               by |-> MintedFor(req[p].hdr),
                               overlap |-> CreateInFlight(p)])
    /\ UNCHANGED <<users, sessions, nreq, minted, fromEmpty>>

\* ------------------------------------------------------------- delete
\* delete_outcome without the ownership check.
delete_outcome_any_owner(us, i, who) ==
    IF i < Len(us) THEN "remove" ELSE "out_of_range"

\* delete_outcome with the two checks folded into one refusal.
delete_outcome_one_refusal(us, i, who) ==
    IF i < Len(us) /\ us[i + 1].created_by = who THEN "remove" ELSE "not_owner"

\* What delete_user decides, holding the lock, for index i and caller who:
\* the bounds check, then the ownership check.
delete_outcome(us, i, who) ==
    IF i < Len(us)
    THEN IF us[i + 1].created_by = who THEN "remove" ELSE "not_owner"
    ELSE "out_of_range"

\* DeleteCheck taking the guard without waiting for the Mutex to be free.
DeleteCheckNoWait(p) ==
    /\ pc[p] = "delete_lock"
    /\ LET d == delete_outcome(users, req[p].user_id, ident[p]) IN
       IF d = "remove"
       THEN /\ users' = remove(users, req[p].user_id)
            /\ usersLock' = p
            /\ calls' = <<>>
            /\ fromEmpty' = (users' = <<>>)
            /\ Goto(p, "delete_save")
            /\ UNCHANGED <<req, tok, ident, last>>
       ELSE /\ Respond(p, Err("delete", d))
            /\ UNCHANGED <<users, usersLock, calls, fromEmpty>>
    /\ UNCHANGED <<sessions, file, nreq, minted, stale>>

\* state.users.lock().await, the checks and users.remove(user_id); the two
\* Err branches return (dropping the guard) without touching anything.
DeleteCheck(p) ==
    /\ pc[p] = "delete_lock"
    /\ usersLock = NoProc
    /\ LET d == delete_outcome(users, req[p].user_id, ident[p]) IN
       IF d = "remove"
       THEN /\ users' = remove(users, req[p].user_id)
            /\ usersLock' = p
            /\ calls' = <<>>
            /\ fromEmpty' = (users' = <<>>)
            /\ Goto(p, "delete_save")
            /\ UNCHANGED <<req, tok, ident, last>>
       ELSE /\ Respond(p, Err("delete", d))
            /\ UNCHANGED <<users, usersLock, calls, fromEmpty>>
    /\ UNCHANGED <<sessions, file, nreq, minted, stale>>

\* save_users(&users).await?; Ok(StatusCode::NO_CONTENT)
DeleteSave(p) ==
    /\ pc[p] = "delete_save"
    /\ SaveAndReturn(p)
    /\ UNCHANGED <<users, sessions, nreq, minted, calls, fromEmpty>>

\* ------------------------------------------------------------- system
\* The steps a task takes after its request has arrived.
Handler(p) ==
    \/ LoginInsert(p) \/ ListClone(p)
    \/ CreatePush(p) \/ CreateSave(p)
    \/ DeleteCheck(p) \/ DeleteSave(p)

Next ==
    \E p \in Procs :
        \/ Login(p) \/ LoginInsert(p)
        \/ CreateArrive(p) \/ DeleteArrive(p)
        \/ ListArrive(p) \/ ListClone(p)
        \/ CreatePush(p) \/ CreateSave(p)
        \/ DeleteCheck(p) \/ DeleteSave(p)

Spec == Init /\ [][Next]_vars

\* The tokio runtime polls every task that can make progress, and
\* tokio::sync::Mutex hands the lock to its waiters in the order they asked
\* for it, so a task that keeps finding the lock free now and then gets it.
FairSpec == Spec /\ \A p \in Procs : SF_vars(Handler(p))

\* ------------------------------------------------------------- properties
\* Task p leaves the place l of its handler in this step.
Step(p, l) == pc[p] = l /\ pc'[p] # l

\* The records the returned create calls asked for, in order of return.
Created ==
    [k \in 1..Len(calls) |->
        [username   |-> calls[k].payload.username,
         real_name  |-> calls[k].payload.real_name,
         email      |-> calls[k].payload.email,
         created_by |-> calls[k].by]]

\* C1: a delete whose caller is not the created_by of the record at its
\* in-bounds index answers Forbidden (403) and leaves the collection and
\* users.json as they were; so does the session lookup that precedes it.
C1_ForeignDeleteForbidden ==
    [][\A p \in Procs :
          /\ (Step(p, "delete_lock")
              /\ req[p].user_id < Len(users)
              /\ users[req[p].user_id + 1].created_by # ident[p])
             => /\ last'.op = "delete"
                /\ last'.err = "Forbidden"
                /\ last'.status = 403
                /\ users' = users
                /\ file' = file
          /\ (Step(p, "idle") /\ req'[p].op = "delete")
             => users' = users /\ file' = file]_vars

C1_Witness ==
    /\ last.op = "delete"
    /\ last.cause = "not_owner"
    /\ users # <<>>

\* C2: a delete whose index is not below the current length answers
\* NotFound (404) and leaves the collection and users.json as they were,
\* whatever the length and whoever the caller.
C2_OutOfRangeNotFound ==
    [][\A p \in Procs :
          (Step(p, "delete_lock") /\ req[p].user_id >= Len(users))
          => /\ last'.op = "delete"
             /\ last'.err = "UserNotFound"
             /\ last'.status = 404
             /\ users' = users
             /\ file' = file]_vars

C2_Witness ==
    /\ last.op = "delete"
    /\ last.cause = "out_of_range"
    /\ users = <<>>

\* C3: when the collection started empty and only creates have touched it
\* since, list answers exactly the records of the creates that returned, one
\* per call and in call order, each with the caller's fields and created_by
\* the username its token was minted for; equal usernames stay apart.
C3_ListAfterCreates ==
    [][\A p \in Procs :
          (Step(p, "list_lock") /\ fromEmpty)
          => /\ last'.op = "list"
             /\ last'.cause = "ok"
             /\ last'.body = Created]_vars

C3_Witness ==
    /\ last.op = "list"
    /\ fromEmpty
    /\ Len(last.body) = 2
    /\ last.body = Created
    /\ last.body[1].username = last.body[2].username
    /\ last.body[1].created_by = last.body[2].created_by

\* C4: the removal of a delete at index i leaves the records before i in
\* place and every later record one position lower; a delete at the same
\* index by the same identity would then meet the record that was at i + 1:
\* it removes it if that identity created it, is Forbidden if not, and is
\* NotFound if i was the last index.
C4_RemoveShiftsDown ==
    [][\A p \in Procs :
          (Step(p, "delete_lock") /\ pc'[p] = "delete_save")
          => LET i == req[p].user_id
                 n == Len(users)
             IN  /\ i < n
                 /\ Len(users') = n - 1
                 /\ \A j \in 1..i : users'[j] = users[j]
                 /\ \A j \in (i + 1)..(n - 1) : users'[j] = users[j + 1]
                 /\ delete_outcome(users', i, ident[p]) =
                       IF i + 1 >= n THEN "out_of_range"
                       ELSE IF users[i + 2].created_by = ident[p] THEN "remove"
                       ELSE "not_owner"]_vars

C4_Witness ==
    /\ last.op = "delete"
    /\ last.cause = "ok"
    /\ users # <<>>
    /\ ~fromEmpty

\* C5: a create or delete without a session token, or with one no login
\* returned, fails as Unauthenticated.
C5_Unauthenticated ==
    last.cause = "no_session" => last.err = "Unauthenticated"

\* C6: the response of a failure differs from the response the service
\* gives to every other kind of failure.
C6_FailuresDistinct ==
    last.cause \in Causes
    => \A c \in Causes \ {last.cause} :
          /\ last.err # ErrAt(c)
          /\ last.status # into_response(ErrAt(c))

\* C7: a login never returns a token an earlier login returned, and every
\* token a login has returned resolves to the username that login was given.
LoginsInFlight == {tok[p] : p \in {q \in Procs : pc[q] = "login_lock"}}
C7_TokensDistinctAndBound ==
    /\ [][\A p \in Procs :
             Step(p, "login_lock") => tok[p] \notin DOMAIN sessions]_vars
    /\ [](\A t \in DOMAIN minted \ LoginsInFlight :
             t \in DOMAIN sessions /\ sessions[t] = minted[t])

C7_Witness ==
    \E t1, t2 \in DOMAIN sessions :
        /\ t1 # t2
        /\ sessions[t1] = sessions[t2]
        /\ LoginsInFlight = {}

\* C8: while no write has failed since the latest successful one and no
\* handler is between its change and its write, what load_users would read
\* from users.json is the collection in memory, record for record.
C8_ReloadEqualsMemory ==
    (~stale /\ usersLock = NoProc) => load_users(file) = users

C8_Witness ==
    /\ ~stale
    /\ usersLock = NoProc
    /\ last.op = "delete"
    /\ last.cause = "ok"
    /\ Len(users) >= 2
    /\ file = Saved(users)

\* C9: under every interleaving, once the creates have returned the
\* collection ends with exactly their records, one per call, each with the
\* fields of its call and created_by the identity of that call; a push
\* leaves what was there in place and adds one record.
C9_NoCreateLost ==
    /\ [](usersLock = NoProc
          => /\ Len(users) >= Len(calls)
             /\ SubSeq(users, Len(users) - Len(calls) + 1, Len(users)) = Created)
    /\ [][\A p \in Procs :
             Step(p, "create_lock")
             => /\ Len(users') = Len(users) + 1
                /\ SubSeq(users', 1, Len(users)) = users]_vars

C9_Witness ==
    /\ \A p \in Procs : pc[p] = "idle"
    /\ last.op = "create"
    /\ Len(calls) = 2
    /\ calls[1].overlap
    /\ calls[1].by # calls[2].by
    /\ Len(users) >= 2

\* C10: a create or delete answers Ok only with users.json rewritten to hold
\* exactly the collection in memory, its own change included, and while a
\* handler is between its change and its write no step of another task
\* changes the collection or the file.
C10_OkMeansPersisted ==
    [][\A p \in Procs :
          /\ ((Step(p, "create_save") \/ Step(p, "delete_save"))
              /\ last'.cause = "ok")
             => /\ file' = Saved(users)
                /\ load_users(file') = users'
                /\ users' = users
          /\ (pc[p] \in {"create_save", "delete_save"} /\ pc'[p] = pc[p])
             => users' = users /\ file' = file
          /\ Step(p, "create_lock")
             => /\ users'[Len(users')].username = req[p].payload.username
                /\ users'[Len(users')].created_by = ident[p]]_vars

C10_Witness ==
    /\ last.op = "create"
    /\ last.cause = "ok"
    /\ users # <<>>
    /\ load_users(file) = users

\* C11: when save_users fails, create and delete alike answer ServerError
\* (500), the push or the removal stays in the collection, and users.json
\* holds what it held before the write.
C11_FailedWriteKeepsStore ==
    [][\A p \in Procs :
          ((Step(p, "create_save") \/ Step(p, "delete_save"))
           /\ last'.cause = "write_failed")
          => /\ last'.err = "ServerError"
             /\ last'.status = 500
             /\ users' = users
             /\ file' = file]_vars

\* C12: right after main() has built the state, the collection is empty if
\* users.json is absent or is not a JSON array of users, and is the stored
\* sequence if it is one (whatever the order of the fields, and with fields
\* User does not have left out); a list served before any other request
\* answers that collection.
C12_StartupLoad ==
    /\ [](nreq = 0
          => /\ (file = NoFile \/ file = FileOf(<<LBrace, RBrace>>))
                => users = <<>>
             /\ file = FileOf(HandWritten)
                => users = << [username |-> "carol", real_name |-> "Carol C",
                               email |-> "carol@x.com",
                               created_by |-> "mallory"] >>
             /\ usersLock = NoProc
             /\ sessions = <<>>)
    /\ [][\A p \in Procs :
             (Step(p, "list_lock") /\ nreq = 1)
             => /\ last'.cause = "ok"
                /\ last'.body = load_users(file)
                /\ (file # FileOf(HandWritten) => last'.body = <<>>)]_vars

C12_Witness ==
    /\ nreq = 1
    /\ last.op = "list"
    /\ last.cause = "ok"
    /\ last.body = <<>>
    /\ file = FileOf(<<LBrace, RBrace>>)

\* C13: list needs no session token; it answers 200 with the whole
\* collection in order, read while no create or delete is between its change
\* and the end of its write, and neither its arrival nor its answer changes
\* the collection, the session table or users.json.
C13_ListSnapshot ==
    [][\A p \in Procs :
          /\ Step(p, "list_lock")
             => /\ req[p].hdr = NoHeader
                /\ last'.op = "list"
                /\ last'.cause = "ok"
                /\ last'.status = 200
                /\ last'.body = users
                /\ \A q \in Procs : pc[q] \notin {"create_save", "delete_save"}
                /\ UNCHANGED <<users, sessions, file>>
          /\ (Step(p, "idle") /\ req'[p].op = "list")
             => UNCHANGED <<users, sessions, file>>]_vars

C13_Witness ==
    /\ last.op = "list"
    /\ last.cause = "ok"
    /\ Len(last.body) >= 2
    /\ last.body = users
    /\ stale
    /\ \E q \in Procs : pc[q] \in {"create_lock", "delete_lock"}

\* C14: at most one task is between taking the users Mutex and the end of
\* its write; list reads only while there is none (C13); a create or delete
\* takes the Mutex in the step that first reads the collection and keeps it,
\* with the collection untouched by others, until its write has succeeded
\* or failed.
InCriticalSection == {p \in Procs : pc[p] \in {"create_save", "delete_save"}}
C14_OneInCriticalSection ==
    /\ [](/\ Cardinality(InCriticalSection) <= 1
          /\ InCriticalSection =
                IF usersLock = NoProc THEN {} ELSE {usersLock})
    /\ [][\A p \in Procs :
             /\ (Step(p, "create_lock") \/ (Step(p, "delete_lock") /\ users' # users))
                => InCriticalSection = {} /\ InCriticalSection' = {p}
             /\ (p \in InCriticalSection /\ pc'[p] = pc[p])
                => /\ InCriticalSection' = {p}
                   /\ users' = users
             /\ (Step(p, "create_save") \/ Step(p, "delete_save"))
                => /\ last'.cause \in {"ok", "write_failed"}
                   /\ InCriticalSection' = {}]_vars

C14_Witness ==
    \E p, q \in Procs :
        /\ pc[p] = "create_save"
        /\ pc[q] = "delete_lock"
        /\ req[q].user_id < Len(users)
        /\ users[req[q].user_id + 1].created_by = ident[q]

\* C15: the record a delete removes is the one at its index in the
\* collection as it is in the removing step: the index is in bounds there,
\* the record's created_by is the username the delete's token was minted for,
\* and exactly that record goes; this also when other deletes and creates
\* were waiting and ran in between.
C15_RemovedIsOwned ==
    [][\A p \in Procs :
          (Step(p, "delete_lock") /\ users' # users)
          => LET j == req[p].user_id + 1 IN
             /\ j <= Len(users)
             /\ users[j].created_by = ident[p]
             /\ ident[p] = MintedFor(req[p].hdr)
             /\ users' = SubSeq(users, 1, j - 1) \o SubSeq(users, j + 1, Len(users))]_vars

C15_Witness ==
    /\ last.op = "delete"
    /\ last.cause = "ok"
    /\ users # <<>>
    /\ \E q \in Procs :
          /\ pc[q] = "delete_lock"
          /\ req[q].user_id >= Len(users)

\* C16: the task holding the users Mutex is past every use of the sessions
\* Mutex (it is at its write, not in login or in the extractor); a create or
\* delete that waits for or holds the users Mutex has its username resolved
\* already; and whenever some request is being served, some task can take
\* a step.
C16_NoLockNesting ==
    /\ \A p \in Procs :
          /\ usersLock = p => pc[p] \in {"create_save", "delete_save"}
          /\ pc[p] \in {"create_lock", "delete_lock", "create_save", "delete_save"}
             => /\ req[p].hdr \in DOMAIN sessions
                /\ ident[p] = sessions[req[p].hdr]
          /\ pc[p] = "login_lock" => usersLock # p
    /\ (\E p \in Procs : pc[p] # "idle") => ENABLED (\E p \in Procs : Handler(p))

C16_Witness ==
    \E p, q \in Procs :
        /\ usersLock = p
        /\ pc[p] = "delete_save"
        /\ pc[q] = "login_lock"

\* C17: a login waiting to insert its session can do so whether or not the
\* users Mutex is held, and an arriving create or delete gets through the
\* extractor likewise.
C17_SessionsNotBlocked ==
    /\ \A p \in Procs : pc[p] = "login_lock" => ENABLED LoginInsert(p)
    /\ (nreq < MaxReqs /\ \E p \in Procs : pc[p] = "idle")
       => /\ ENABLED (\E p \in Procs : CreateArrive(p))
          /\ ENABLED (\E p \in Procs : DeleteArrive(p))

C17_Witness ==
    /\ last.op = "login"
    /\ last.cause = "ok"
    /\ last.held
    /\ usersLock # NoProc

\* C18: a task whose request has been answered, with a failure or not, holds
\* no lock; the step that answers a failure leaves the users Mutex free if
\* the failing task held it; and with every task scheduled fairly each
\* request in service, whether it arrived before or after a failure, is
\* answered.
C18_FailureReleasesLocks ==
    /\ [](\A p \in Procs : pc[p] = "idle" => usersLock # p)
    /\ [][\A p \in Procs :
             (pc[p] # "idle" /\ pc'[p] = "idle" /\ last'.cause \in Causes)
             => /\ usersLock' # p
                /\ (usersLock = p => usersLock' = NoProc)]_vars
    /\ \A p \in Procs : (pc[p] # "idle") ~> (pc[p] = "idle")

C18_Witness ==
    /\ stale
    /\ last.op = "list"
    /\ last.cause = "ok"
    /\ usersLock = NoProc
    /\ \A p \in Procs : pc[p] = "idle"
    /\ nreq = MaxReqs

\* C19: no step removes a token from the session table or binds it to
\* another username, a login's insert included; and only a login's insert
\* changes the table at all: no arrival, list, create or delete step does.
C19_SessionsOnlyGrow ==
    [][/\ \A t \in DOMAIN sessions :
             t \in DOMAIN sessions' /\ sessions'[t] = sessions[t]
       /\ (\A p \in Procs : ~Step(p, "login_lock")) => sessions' = sessions
       /\ \A p \in Procs :
             Step(p, "login_lock")
             => DOMAIN sessions' = DOMAIN sessions \cup {tok[p]}]_vars

C19_Witness ==
    /\ Cardinality(DOMAIN sessions) = 2
    /\ \E t1, t2 \in DOMAIN sessions : sessions[t1] # sessions[t2]
    /\ last.op = "delete"
    /\ last.cause = "ok"

\* C20: a write that succeeds while users.json is behind the collection
\* (the write before it failed) leaves in users.json the text of the whole
\* collection, so that a reload gives the collection again; for a create,
\* that includes the records of all creates returned since the latest
\* removal, the one whose write failed among them.
C20_NextWriteCatchesUp ==
    [][\A p \in Procs :
          (stale /\ last'.cause = "ok"
           /\ pc[p] \in {"create_save", "delete_save"} /\ pc'[p] = "idle")
          => /\ file' = FileOf(to_string_pretty(users))
             /\ load_users(file') = users'
             /\ ~stale'
             /\ Len(users') >= Len(calls')
             /\ \A k \in 1..Len(calls') :
                   LET u == users'[Len(users') - Len(calls') + k] IN
                   /\ u.username = calls'[k].payload.username
                   /\ u.real_name = calls'[k].payload.real_name
                   /\ u.email = calls'[k].payload.email
                   /\ u.created_by = calls'[k].by]_vars

C20_Witness ==
    /\ last.op = "create"
    /\ last.cause = "ok"
    /\ last.behind
    /\ Len(calls) = 2
    /\ Len(users) >= 2
    /\ load_users(file) = users

====
